---- MODULE Spec2Model ----
(***************************************************************************)
(* Model of PUBLISH.py: the release script that resolves a version, writes *)
(* it into config.yaml, rewrites CHANGELOG.md, commits and re-tags.        *)
(*                                                                         *)
(* Text is modelled as a sequence of one-character strings, so that the    *)
(* regular expressions, strip()/lstrip() calls and line splitting of the   *)
(* script are computed character by character.  Fixed message texts that   *)
(* the script never inspects are kept as single multi-character elements.  *)
(***************************************************************************)
EXTENDS Integers, Sequences, FiniteSets, TLC

\* ------------------------------------------------------------------ values
\* Python's None, and the state of a path that does not exist.
None == <<"<None>">>
NoFile == <<"<ENOENT>">>

\* The characters that Python's \s and str.strip() treat as whitespace,
\* restricted to the characters the model's inputs use.
WS == {" ", "\t", "\n", "\r"}
Digits == <<"0", "1", "2", "3", "4", "5", "6", "7", "8", "9">>
Quote == "\""
Apos == "'"

\* Python truthiness of a str-or-None value.
Truthy(x) == x # None /\ x # <<>>

\* ------------------------------------------------------------- str helpers
\* s[i:] for a 0-based Python index i.
From(s, i) == SubSeq(s, i + 1, Len(s))

\* Number of leading characters of s that belong to cs.
LeadCount(s, cs) ==
  IF \A i \in 1..Len(s) : s[i] \in cs THEN Len(s)
  ELSE (CHOOSE i \in 1..Len(s) : s[i] \notin cs /\ \A j \in 1..(i - 1) : s[j] \in cs) - 1

\* Number of trailing characters of s that belong to cs.
TrailCount(s, cs) ==
  IF \A i \in 1..Len(s) : s[i] \in cs THEN Len(s)
  ELSE Len(s) - (CHOOSE i \in 1..Len(s) : s[i] \notin cs /\ \A j \in (i + 1)..Len(s) : s[j] \in cs)

\* str.lstrip(chars), str.rstrip(chars), str.strip(chars).
LStrip(s, cs) == From(s, LeadCount(s, cs))
RStrip(s, cs) == SubSeq(s, 1, Len(s) - TrailCount(s, cs))
StripChars(s, cs) == RStrip(LStrip(s, cs), cs)

\* str.startswith(prefix).
StartsWith(s, p) == Len(p) <= Len(s) /\ SubSeq(s, 1, Len(p)) = p

\* str.split(sep) for a one-character separator: the list of fields.
RECURSIVE Split(_, _)
Split(s, sep) ==
  IF \A i \in 1..Len(s) : s[i] # sep THEN <<s>>
  ELSE LET k == CHOOSE i \in 1..Len(s) : s[i] = sep /\ \A j \in 1..(i - 1) : s[j] # sep
       IN  <<SubSeq(s, 1, k - 1)>> \o Split(From(s, k), sep)

\* Concatenation of a list of strings (file.writelines, "".join).
RECURSIVE Concat(_)
Concat(ls) == IF ls = <<>> THEN <<>> ELSE Head(ls) \o Concat(Tail(ls))

\* ------------------------------------------------------------ text-mode IO
\* open(path, "r") with the default newline=None: "\r\n" and a lone "\r"
\* are both delivered to the program as "\n".
RECURSIVE UniversalNewlines(_)
UniversalNewlines(b) ==
  IF b = <<>> THEN <<>>
  ELSE IF Head(b) = "\r"
       THEN IF Len(b) >= 2 /\ b[2] = "\n"
            THEN <<"\n">> \o UniversalNewlines(From(b, 2))
            ELSE <<"\n">> \o UniversalNewlines(Tail(b))
       ELSE <<Head(b)>> \o UniversalNewlines(Tail(b))

\* f.readlines() / iteration over f: lines keep their "\n"; a last line
\* without terminator is returned as it is.
RECURSIVE SplitLines(_)
SplitLines(t) ==
  IF t = <<>> THEN <<>>
  ELSE IF \A i \in 1..Len(t) : t[i] # "\n" THEN <<t>>
       ELSE LET k == CHOOSE i \in 1..Len(t) : t[i] = "\n" /\ \A j \in 1..(i - 1) : t[j] # "\n"
            IN  <<SubSeq(t, 1, k)>> \o SplitLines(From(t, k))

readlines(file) == SplitLines(UniversalNewlines(file))

\* ------------------------------------------------------------- config file
KEY == <<"v", "e", "r", "s", "i", "o", "n", ":">>

strip_v(tag) == StripChars(LStrip(tag, {"v"}), WS)

\* re.match(r"^\s*version:\s*", line)
MatchesVersionKey(line) == StartsWith(LStrip(line, WS), KEY)

\* re.match(r"^(\s*)", line).group(1)
Indent(line) == SubSeq(line, 1, LeadCount(line, WS))

\* re.match(r"^\s*version:\s*(.+?)\s*$", line): whether it matches, and
\* group(1).  r is the text after the key.  With a non-blank character in r
\* the greedy \s* takes all leading blanks and the lazy group runs to the
\* last non-blank character ("." never matches "\n").  A blank r matches
\* only by giving back one blank that is not "\n" to the group.
VersionMatch(line) ==
  IF ~MatchesVersionKey(line) THEN [m |-> FALSE, g |-> <<>>]
  ELSE LET r == From(LStrip(line, WS), Len(KEY))
           k == LeadCount(r, WS)
           g == RStrip(From(r, k), WS)
       IN  IF k < Len(r)
           THEN [m |-> \A i \in 1..Len(g) : g[i] # "\n", g |-> g]
           ELSE IF \E i \in 1..Len(r) : r[i] # "\n"
                THEN [m |-> TRUE,
                      g |-> <<r[CHOOSE i \in 1..Len(r) :
                                r[i] # "\n" /\ \A j \in (i + 1)..Len(r) : r[j] = "\n"]>>]
                ELSE [m |-> FALSE, g |-> <<>>]

\* m.group(1).strip().strip('"').strip("'")
Unquote(g) == StripChars(StripChars(StripChars(g, WS), {Quote}), {Apos})

RECURSIVE FirstVersion(_)
FirstVersion(lines) ==
  IF lines = <<>> THEN <<>>
  ELSE IF VersionMatch(Head(lines)).m THEN Unquote(VersionMatch(Head(lines)).g)
       ELSE FirstVersion(Tail(lines))

detect_config_version(file) ==
  IF file = NoFile THEN <<>> ELSE FirstVersion(readlines(file))

\* (variant: every version line is rewritten, not only the first)
RECURSIVE Rewrite_EveryMatch(_, _, _)
Rewrite_EveryMatch(lines, v, replaced) ==
  IF lines = <<>>
  THEN IF replaced THEN <<>> ELSE <<KEY \o <<" ">> \o v \o <<"\n">>>>
  ELSE IF MatchesVersionKey(Head(lines))
       THEN <<Indent(Head(lines)) \o KEY \o <<" ">> \o v \o <<"\n">>>>
              \o Rewrite_EveryMatch(Tail(lines), v, TRUE)
       ELSE <<Head(lines)>> \o Rewrite_EveryMatch(Tail(lines), v, replaced)

\* The loop of write_config_version over the lines read.
RECURSIVE Rewrite(_, _, _)
Rewrite(lines, v, replaced) ==
  IF lines = <<>>
  THEN IF replaced THEN <<>> ELSE <<KEY \o <<" ">> \o v \o <<"\n">>>>
  ELSE IF MatchesVersionKey(Head(lines)) /\ ~replaced
       THEN <<Indent(Head(lines)) \o KEY \o <<" ">> \o v \o <<"\n">>>> \o Rewrite(Tail(lines), v, TRUE)
       ELSE <<Head(lines)>> \o Rewrite(Tail(lines), v, replaced)

\* (variant: a missing file is created instead of raising FileNotFoundError)
write_config_version_Creates(file, v, dry) ==
  IF dry THEN [raised |-> FALSE, file |-> file]
  ELSE [raised |-> FALSE,
        file |-> Concat(Rewrite(IF file = NoFile THEN <<>> ELSE readlines(file), v, FALSE))]

\* write_config_version: the outcome and the file content left behind.
write_config_version(file, v, dry) ==
  IF file = NoFile THEN [raised |-> TRUE, file |-> file]
  ELSE IF dry THEN [raised |-> FALSE, file |-> file]
       ELSE [raised |-> FALSE, file |-> Concat(Rewrite(readlines(file), v, FALSE))]

\* ------------------------------------------------------------ auto_version
\* int(s): surrounding whitespace is ignored, one sign is allowed, and the
\* digits may be grouped by single underscores.
IsDigit(c) == \E i \in 1..10 : Digits[i] = c
DigitVal(c) == (CHOOSE i \in 1..10 : Digits[i] = c) - 1

RECURSIVE DigitsValue(_, _)
DigitsValue(s, acc) ==
  IF s = <<>> THEN acc
  ELSE IF Head(s) = "_" THEN DigitsValue(Tail(s), acc)
       ELSE DigitsValue(Tail(s), 10 * acc + DigitVal(Head(s)))

IsIntBody(s) ==
  /\ s # <<>>
  /\ IsDigit(s[1]) /\ IsDigit(s[Len(s)])
  /\ \A i \in 1..Len(s) : IsDigit(s[i]) \/ (s[i] = "_" /\ IsDigit(s[i - 1]) /\ IsDigit(s[i + 1]))

\* [ok |-> the text is an integer literal, n |-> its value]
int(s) ==
  LET t == StripChars(s, WS)
      signed == t # <<>> /\ t[1] \in {"+", "-"}
      body == IF signed THEN Tail(t) ELSE t
  IN  IF IsIntBody(body)
      THEN [ok |-> TRUE, n |-> IF signed /\ t[1] = "-" THEN 0 - DigitsValue(body, 0) ELSE DigitsValue(body, 0)]
      ELSE [ok |-> FALSE, n |-> 0]

\* str(n) for an integer n.
RECURSIVE NatStr(_)
NatStr(n) == IF n < 10 THEN <<Digits[n + 1]>> ELSE NatStr(n \div 10) \o <<Digits[(n % 10) + 1]>>
str(n) == IF n < 0 THEN <<"-">> \o NatStr(0 - n) ELSE NatStr(n)

\* Zero-padded decimal of width w (strftime's %Y, %m, %d).
RECURSIVE Pad(_, _)
Pad(s, w) == IF Len(s) >= w THEN s ELSE Pad(<<"0">> \o s, w)

\* datetime.now().strftime("%Y.%m.%d") for the date <<year, month, day>>.
strftime(date) ==
  Pad(NatStr(date[1]), 4) \o <<".">> \o Pad(NatStr(date[2]), 2) \o <<".">> \o Pad(NatStr(date[3]), 2)

\* The sequence number chosen by auto_version.
NextN(cur, today) ==
  IF StartsWith(cur, today)
  THEN LET parts == Split(cur, ".")
           last == int(parts[Len(parts)])
       IN  IF last.ok THEN last.n + 1 ELSE 2
  ELSE 1

auto_version(file, date) ==
  strftime(date) \o <<".">> \o str(NextN(detect_config_version(file), strftime(date)))

\* ---------------------------------------------------- fetch_latest_release
\* The release registry's answer to the one GET request:
\*   [status |-> "ok" | "http_error" | "url_error" | "timeout" | "bad_json",
\*    isdict |-> whether the JSON payload is an object,
\*    tag_name, body |-> a string, or None when the field is missing or null]
\* The exception each answer makes http_json raise ("" for none).
http_json_raises(rel) ==
  CASE rel.status = "http_error" -> "HTTPError"
    [] rel.status = "url_error" -> "URLError"
    [] rel.status = "timeout" -> "TimeoutError"
    [] rel.status = "bad_json" -> "JSONDecodeError"
    [] OTHER -> ""

\* Python's exception hierarchy, as far as the handlers ask.
HTTPErrors == {"HTTPError"}
Exceptions == {"HTTPError", "URLError", "TimeoutError", "JSONDecodeError", "AttributeError", "ValueError"}

\* The body of the try block: the exception raised, or the pair returned.
fetch_try(rel) ==
  LET tag == IF Truthy(rel.tag_name) THEN rel.tag_name ELSE <<>>
      body == IF Truthy(rel.body) THEN rel.body ELSE <<>>
  IN  IF http_json_raises(rel) # "" THEN [exc |-> http_json_raises(rel), tag |-> None, body |-> None]
      ELSE IF ~rel.isdict THEN [exc |-> "AttributeError", tag |-> None, body |-> None]
      ELSE IF tag = <<>> THEN [exc |-> "ValueError", tag |-> None, body |-> None]
      ELSE [exc |-> "",
            tag |-> IF StartsWith(tag, <<"v">>) THEN tag ELSE <<"v">> \o tag,
            body |-> body]

\* (variant: only the first except clause)
fetch_catches_HTTPOnly(exc) == exc \in HTTPErrors

\* The two except clauses: which exceptions end in "return None, None".
fetch_catches(exc) == exc \in HTTPErrors \/ exc \in Exceptions

fetch_latest_release(rel) ==
  LET r == fetch_try(rel)
  IN  IF r.exc = "" THEN r
      ELSE IF fetch_catches(r.exc) THEN [exc |-> "", tag |-> None, body |-> None]
      ELSE r

\* ------------------------------------------------------------------- state
VARIABLES
  args,        \* the parsed command line: version, notes, latest_only, no_push, dry_run
  release,     \* what the release registry answers
  date,        \* today's date <<year, month, day>>
  config,      \* content of config.yaml, or NoFile
  changelog,   \* content of CHANGELOG.md, or NoFile
  head,        \* the commit HEAD points at: [id, config, changelog]
  remoteHead,  \* the commit the remote branch points at
  localTags,   \* set of [name, target] in the local repository
  remoteTags,  \* set of [name, target] on origin
  pc,          \* position of main()
  version_no_v, tag_with_v, notes,   \* main()'s locals
  exc,         \* the exception that ended the run ("" for none)
  queries,     \* number of calls of fetch_latest_release in this run
  steps,       \* the steps main() has entered in this run, in order
  cmds,        \* the git commands issued in this run: [cmd, arg, rc]
  run,         \* number of the current run
  start,       \* files and refs as they were when this run started
  first        \* files and tags as the first run left them

vars == <<args, release, date, config, changelog, head, remoteHead, localTags, remoteTags,
          pc, version_no_v, tag_with_v, notes, exc, queries, steps, cmds, run, start, first>>

\* ------------------------------------------------------------------ bounds
MaxRuns == 2

\* ------------------------------------------------------------------ inputs
AUTO == <<"a", "u", "t", "o">>
Day1 == <<2024, 1, 15>>
Day2 == <<2024, 1, 16>>
Dates == {Day1, Day2}

\* Version tokens given on the command line (other than "auto").
Tokens ==
  { <<"1", ".", "0">>,
    <<"v", "1", ".", "0">>,
    <<Quote, "1", Quote>>,
    <<" ", "1">>,
    <<"1", "\n", "2">> }

VersionLine(v) == KEY \o <<" ">> \o v \o <<"\n">>
OtherLine == <<"a", ":", " ", "1">>

\* Contents of config.yaml before the run.
Documents ==
  { NoFile,
    <<>>,
    OtherLine \o <<"\n">>,
    OtherLine,
    VersionLine(<<"0", ".", "9">>),
    OtherLine \o <<"\n", " ", " ">> \o VersionLine(<<Quote>> \o strftime(Day1) \o <<".", "3", Quote>>)
      \o VersionLine(<<"9">>),
    OtherLine \o <<"\r", "\n">> \o KEY \o <<"7", "\r", "\n">>,
    VersionLine(strftime(Day1)),
    VersionLine(strftime(Day1) \o <<".", "x">>),
    KEY \o <<"\n">> \o VersionLine(strftime(Day1) \o <<".", "1">>) }

Payload(t, b) == [status |-> "ok", isdict |-> TRUE, tag_name |-> t, body |-> b]
Failure(s) == [status |-> s, isdict |-> FALSE, tag_name |-> None, body |-> None]
ReleaseBody == <<"release notes of the registry">>

FailingReleases ==
  { Failure("http_error"), Failure("url_error"), Failure("timeout"), Failure("bad_json"),
    [status |-> "ok", isdict |-> FALSE, tag_name |-> None, body |-> None],
    Payload(None, ReleaseBody),
    Payload(<<>>, ReleaseBody) }

PublishedReleases ==
  { Payload(<<"v", "2", ".", "0">>, ReleaseBody),
    Payload(<<"2", ".", "0">>, None),
    Payload(<<"v", "v", "2">>, <<>>) }

CustomNotes == <<"notes given with --notes">>

\* Tag names that may exist before the run.
OldCommit == [id |-> 0, config |-> NoFile, changelog |-> NoFile]
OldTagNames ==
  {<<"v">> \o t : t \in {<<"1", ".", "0">>, <<"v", "1", ".", "0">>, <<Quote, "1", Quote>>, <<"2", ".", "0">>}}
    \cup {<<"v">> \o strftime(d) \o <<".">> \o str(n) : d \in Dates, n \in {1, 2, 4, 16}}
OldTags == {[name |-> n, target |-> OldCommit] : n \in OldTagNames}

OldChangelog == <<"# Changelog of the previous release">>

Snapshot == [config |-> config, changelog |-> changelog, head |-> head, remoteHead |-> remoteHead,
             localTags |-> localTags, remoteTags |-> remoteTags]

\* The command lines and surroundings a run starts from: a version source
\* with the registry's answer and the date.  The answer and the date are
\* varied where the version source reads them.
AutoInputs ==
  {[version |-> AUTO, release |-> r, date |-> d] :
      r \in {Failure("http_error"), Payload(<<"v", "2", ".", "0">>, ReleaseBody)}, d \in Dates}
ExplicitInputs ==
  {[version |-> v, release |-> r, date |-> d] :
      v \in Tokens, r \in {Failure("http_error"), Payload(<<"v", "2", ".", "0">>, ReleaseBody)}, d \in {Day1}}
RegistryInputs ==
  {[version |-> v, release |-> r, date |-> d] : v \in {None, <<>>}, r \in FailingReleases, d \in Dates}
    \cup {[version |-> v, release |-> r, date |-> d] : v \in {None, <<>>}, r \in PublishedReleases, d \in {Day1}}

Given(i) ==
  \E n \in {<<>>, CustomNotes}, lo, np, dr \in BOOLEAN :
    /\ args = [version |-> i.version, notes |-> n, latest_only |-> lo, no_push |-> np, dry_run |-> dr]
    /\ release = i.release
    /\ date = i.date

Init ==
  /\ config \in Documents
  /\ \/ \E i \in AutoInputs : Given(i)
     \/ \E i \in ExplicitInputs : Given(i)
     \/ \E i \in RegistryInputs : Given(i)
  /\ changelog = OldChangelog
  /\ head = [id |-> 1, config |-> config, changelog |-> changelog]
  /\ remoteHead = head
  /\ localTags \in {{}, OldTags}
  /\ remoteTags \in {{}, OldTags}
  /\ pc = "start"
  /\ version_no_v = None /\ tag_with_v = None /\ notes = None
  /\ exc = ""
  /\ queries = 0
  /\ steps = <<>>
  /\ cmds = <<>>
  /\ run = 1
  /\ start = Snapshot
  /\ first = None

\* --------------------------------------------------------------------- git
TagNames(tags) == {t.name : t \in tags}
TagTarget(tags, name) == (CHOOSE t \in tags : t.name = name).target

\* git check-ref-format, as far as the model's characters go: no blanks or
\* control characters, no "..", no trailing ".".
ValidRef(name) ==
  /\ name # <<>>
  /\ \A i \in 1..Len(name) : name[i] \notin WS
  /\ \A i \in 1..(Len(name) - 1) : ~(name[i] = "." /\ name[i + 1] = ".")
  /\ name[Len(name)] # "."

Cmd(c, a, rc) == [cmd |-> c, arg |-> a, rc |-> rc]

\* (variant: every call checks the exit status)
sh_raises_Always(rc, check) == rc # 0

\* sh(cmd, check): subprocess.run raises CalledProcessError on a non-zero
\* exit status only when check is set.
sh_raises(rc, check) == check /\ rc # 0

\* git tag -d <name> / git push origin :refs/tags/<name>: exit status and
\* the tags left.
git_delete_tag(tags, name) ==
  IF name \in TagNames(tags)
  THEN [rc |-> 0, tags |-> {t \in tags : t.name # name}]
  ELSE [rc |-> 1, tags |-> tags]

\* git tag <name>: refuses an existing or malformed name.
git_create_tag(tags, name, commit) ==
  IF name \in TagNames(tags) \/ ~ValidRef(name)
  THEN [rc |-> 128, tags |-> tags]
  ELSE [rc |-> 0, tags |-> tags \cup {[name |-> name, target |-> commit]}]

\* git push origin <name>: creates the remote tag; a remote tag of that name
\* with another target is not replaced.
git_push_tag(rtags, ltags, name) ==
  IF name \notin TagNames(rtags)
  THEN [rc |-> 0, tags |-> rtags \cup {[name |-> name, target |-> TagTarget(ltags, name)]}]
  ELSE IF TagTarget(rtags, name) = TagTarget(ltags, name)
       THEN [rc |-> 0, tags |-> rtags]
       ELSE [rc |-> 1, tags |-> rtags]

\* git_force_tag_and_push(tag_with_v, push=True, dry): the commands issued
\* with their exit status, the refs left, and whether sh raised.
git_force_tag_and_push(tag, dry, ltags, rtags, hd, rhd) ==
  LET d1 == git_delete_tag(ltags, tag)
      d2 == git_delete_tag(rtags, tag)
      c3 == git_create_tag(d1.tags, tag, hd)
      p5 == git_push_tag(d2.tags, c3.tags, tag)
      log1 == <<Cmd("tag -d", tag, d1.rc)>>
      log2 == log1 \o <<Cmd("push origin :refs/tags/", tag, d2.rc)>>
      log3 == log2 \o <<Cmd("tag", tag, c3.rc)>>
      log5 == log3 \o <<Cmd("push", <<>>, 0), Cmd("push origin", tag, p5.rc)>>
      Out(log, lt, rt, rh, raised) ==
        [cmds |-> log, localTags |-> lt, remoteTags |-> rt, remoteHead |-> rh, raised |-> raised]
  IN  IF dry THEN Out(<<>>, ltags, rtags, rhd, FALSE)
      ELSE IF sh_raises(d1.rc, FALSE) THEN Out(log1, d1.tags, rtags, rhd, TRUE)
      ELSE IF sh_raises(d2.rc, FALSE) THEN Out(log2, d1.tags, d2.tags, rhd, TRUE)
      ELSE IF sh_raises(c3.rc, TRUE) THEN Out(log3, c3.tags, d2.tags, rhd, TRUE)
      ELSE Out(log5, c3.tags, p5.tags, hd, sh_raises(p5.rc, TRUE))

\* git_add_commit(files, message, dry): "git commit" fails when the staged
\* files equal HEAD's; its exit status is not checked.
git_add_commit(dry, cfg, chl, hd) ==
  LET changed == cfg # hd.config \/ chl # hd.changelog
      rc == IF changed THEN 0 ELSE 1
  IN  IF dry THEN [cmds |-> <<>>, head |-> hd, raised |-> FALSE]
      ELSE [cmds |-> <<Cmd("add", <<>>, 0), Cmd("commit", <<>>, rc)>>,
            head |-> IF changed THEN [id |-> hd.id + 1, config |-> cfg, changelog |-> chl] ELSE hd,
            raised |-> sh_raises(0, TRUE) \/ sh_raises(rc, FALSE)]

\* (variant: the dry flag is not consulted)
git_push_IgnoresDry(dry, hd, rhd) == [cmds |-> <<Cmd("push", <<>>, 0)>>, remoteHead |-> hd]

\* git_push(dry)
git_push(dry, hd, rhd) ==
  IF dry THEN [cmds |-> <<>>, remoteHead |-> rhd]
  ELSE [cmds |-> <<Cmd("push", <<>>, 0)>>, remoteHead |-> hd]

\* (variant: the file is opened for appending)
write_changelog_Appends(file, text, dry) ==
  IF dry THEN file
  ELSE (IF file = NoFile THEN <<>> ELSE file)
         \o (IF Truthy(text) THEN text ELSE <<"# Changelog\n\nManual release.">>)

\* write_changelog(text, dry): the content of CHANGELOG.md left behind.
write_changelog(file, text, dry) ==
  IF dry THEN file
  ELSE IF Truthy(text) THEN text ELSE <<"# Changelog\n\nManual release.">>

\* -------------------------------------------------------------------- main
\* main(), step 1: version_no_v, tag_with_v and notes; whether the registry
\* was queried; the exception that escaped, if any.
Resolve(a, rel, file, d) ==
  IF Truthy(a.version)
  THEN LET v == IF a.version # AUTO THEN a.version ELSE auto_version(file, d)
           t == <<"v">> \o v
       IN  [version |-> v, tag |-> t,
            notes |-> IF Truthy(a.notes) THEN a.notes ELSE <<"# ">> \o t \o <<"\n\nManual release.">>,
            queried |-> FALSE, exc |-> ""]
  ELSE LET f == fetch_latest_release(rel)
           v == auto_version(file, d)
           t == <<"v">> \o v
       IN  IF f.exc # ""
           THEN [version |-> None, tag |-> None, notes |-> None, queried |-> TRUE, exc |-> f.exc]
           ELSE IF Truthy(f.tag)
                THEN [version |-> strip_v(f.tag), tag |-> f.tag,
                      notes |-> IF Truthy(a.notes) THEN a.notes
                                ELSE IF Truthy(f.body) THEN f.body
                                ELSE <<"# ">> \o f.tag \o <<"\n">>,
                      queried |-> TRUE, exc |-> ""]
                ELSE [version |-> v, tag |-> t,
                      notes |-> IF Truthy(a.notes) THEN a.notes
                                ELSE <<"# ">> \o t \o <<"\n\nAuto fallback (no releases in repo).">>,
                      queried |-> TRUE, exc |-> ""]

ResolveVersion ==
  /\ pc = "start"
  /\ LET r == Resolve(args, release, config, date)
     IN  /\ version_no_v' = r.version
         /\ tag_with_v' = r.tag
         /\ notes' = r.notes
         /\ queries' = queries + (IF r.queried THEN 1 ELSE 0)
         /\ exc' = r.exc
         /\ pc' = IF r.exc = "" THEN "resolved" ELSE "aborted"
  /\ steps' = Append(steps, "ResolveVersion")
  /\ UNCHANGED <<args, release, date, config, changelog, head, remoteHead, localTags, remoteTags,
                 cmds, run, start, first>>

WriteConfig ==
  /\ pc = "resolved"
  /\ LET w == write_config_version(config, version_no_v, args.dry_run)
     IN  /\ config' = w.file
         /\ exc' = IF w.raised THEN "FileNotFoundError" ELSE ""
         /\ pc' = IF w.raised THEN "aborted" ELSE "config_written"
  /\ steps' = Append(steps, "WriteConfig")
  /\ UNCHANGED <<args, release, date, changelog, head, remoteHead, localTags, remoteTags,
                 version_no_v, tag_with_v, notes, queries, cmds, run, start, first>>

WriteChangelog ==
  /\ pc = "config_written"
  /\ changelog' = write_changelog(changelog, notes, args.dry_run)
  /\ pc' = "changelog_written"
  /\ steps' = Append(steps, "WriteChangelog")
  /\ UNCHANGED <<args, release, date, config, head, remoteHead, localTags, remoteTags,
                 version_no_v, tag_with_v, notes, exc, queries, cmds, run, start, first>>

Commit ==
  /\ pc = "changelog_written"
  /\ LET c == git_add_commit(args.dry_run, config, changelog, head)
     IN  /\ head' = c.head
         /\ cmds' = cmds \o c.cmds
         /\ exc' = IF c.raised THEN "CalledProcessError" ELSE ""
         /\ pc' = IF c.raised THEN "aborted" ELSE "committed"
  /\ steps' = Append(steps, "Commit")
  /\ UNCHANGED <<args, release, date, config, changelog, remoteHead, localTags, remoteTags,
                 version_no_v, tag_with_v, notes, queries, run, start, first>>

\* --no-push: return before any push
NoPush ==
  /\ pc = "committed"
  /\ args.no_push
  /\ pc' = "done"
  /\ steps' = Append(steps, "Stop")
  /\ UNCHANGED <<args, release, date, config, changelog, head, remoteHead, localTags, remoteTags,
                 version_no_v, tag_with_v, notes, exc, queries, cmds, run, start, first>>

\* --latest-only: git_push
LatestOnly ==
  /\ pc = "committed"
  /\ ~args.no_push /\ args.latest_only
  /\ LET p == git_push(args.dry_run, head, remoteHead)
     IN  /\ remoteHead' = p.remoteHead
         /\ cmds' = cmds \o p.cmds
  /\ pc' = "done"
  /\ steps' = Append(steps, "Push")
  /\ UNCHANGED <<args, release, date, config, changelog, head, localTags, remoteTags,
                 version_no_v, tag_with_v, notes, exc, queries, run, start, first>>

\* default: git_force_tag_and_push
RetagAndPush ==
  /\ pc = "committed"
  /\ ~args.no_push /\ ~args.latest_only
  /\ LET g == git_force_tag_and_push(tag_with_v, args.dry_run, localTags, remoteTags, head, remoteHead)
     IN  /\ localTags' = g.localTags
         /\ remoteTags' = g.remoteTags
         /\ remoteHead' = g.remoteHead
         /\ cmds' = cmds \o g.cmds
         /\ exc' = IF g.raised THEN "CalledProcessError" ELSE ""
         /\ pc' = IF g.raised THEN "aborted" ELSE "done"
  /\ steps' = Append(steps, "RetagAndPush")
  /\ UNCHANGED <<args, release, date, config, changelog, head,
                 version_no_v, tag_with_v, notes, queries, run, start, first>>

\* The script is invoked again with the same command line, date and
\* registry state.
Rerun ==
  /\ pc \in {"done", "aborted"}
  /\ run < MaxRuns
  /\ run' = run + 1
  /\ first' = IF run = 1
              THEN [before |-> start.config, config |-> config, changelog |-> changelog, tag |-> tag_with_v,
                    localTags |-> localTags, remoteTags |-> remoteTags, pc |-> pc]
              ELSE first
  /\ start' = Snapshot
  /\ pc' = "start"
  /\ version_no_v' = None /\ tag_with_v' = None /\ notes' = None
  /\ exc' = ""
  /\ queries' = 0
  /\ steps' = <<>>
  /\ cmds' = <<>>
  /\ UNCHANGED <<args, release, date, config, changelog, head, remoteHead, localTags, remoteTags>>

Next ==
  \/ ResolveVersion
  \/ WriteConfig
  \/ WriteChangelog
  \/ Commit
  \/ NoPush
  \/ LatestOnly
  \/ RetagAndPush
  \/ Rerun

Spec == Init /\ [][Next]_vars

\* ================================================================= claims
Entered(step) == \E i \in 1..Len(steps) : steps[i] = step
Issued(c) == \E i \in 1..Len(cmds) : cmds[i].cmd = c
V == <<"v">>

\* ---------------------------------------------------------------------- C1
\* C1: whenever --version is supplied with any value ("auto" and the empty
\* string included) the explicit source is used and the release registry is
\* not queried in that run.
C1_ExplicitNeverQueries ==
  (Entered("ResolveVersion") /\ args.version # None) =>
    /\ queries = 0
    /\ version_no_v = IF args.version = AUTO THEN auto_version(start.config, date) ELSE args.version

\* ---------------------------------------------------------------------- C2
\* C2: the version passed to write_config_version never begins with "v" and
\* the tag passed to git_force_tag_and_push always begins with "v".
C2_PrefixDiscipline ==
  /\ Entered("WriteConfig") => ~StartsWith(version_no_v, V)
  /\ Entered("RetagAndPush") => StartsWith(tag_with_v, V)

\* ---------------------------------------------------------------------- C3
FirstKeyIndex(lines) ==
  IF \E i \in 1..Len(lines) : MatchesVersionKey(lines[i])
  THEN CHOOSE i \in 1..Len(lines) :
         MatchesVersionKey(lines[i]) /\ \A j \in 1..(i - 1) : ~MatchesVersionKey(lines[j])
  ELSE 0

\* the lines of "after" are those of "before", but for before's first
\* version line
OthersSame(before, after) ==
  /\ Len(after) = Len(before)
  /\ \A j \in 1..Len(before) : j # FirstKeyIndex(before) => after[j] = before[j]

JustWritten == pc = "config_written" /\ ~args.dry_run

PlainValue(v) ==
  /\ \A i \in 1..Len(v) : v[i] \notin {"\n", "\r"}
  /\ v # <<>> => (v[1] \notin WS \cup {Quote, Apos} /\ v[Len(v)] \notin WS \cup {Quote, Apos})

LineText(line) == RStrip(line, {"\n", "\r"})
LineTexts(file) == [i \in 1..Len(SplitLines(file)) |-> LineText(SplitLines(file)[i])]

\* C4: on a document without a version line (an unterminated last line and
\* the empty document included) the write leaves the original lines, in
\* order and unchanged, followed by exactly one more line "version: V".
C4_AppendsOneLine ==
  (JustWritten /\ start.config # NoFile /\ FirstKeyIndex(readlines(start.config)) = 0
      /\ \A i \in 1..Len(version_no_v) : version_no_v[i] \notin {"\n", "\r"}) =>
    LineTexts(config) = LineTexts(start.config) \o <<KEY \o <<" ">> \o version_no_v>>

\* ---------------------------------------------------------------------- C5
\* the sequence number as the claim gives it: the integer after "<today>."
\* plus one, 2 when there is no such integer, 1 on another day
ClaimedN(cur, today) ==
  IF ~StartsWith(cur, today) THEN 1
  ELSE LET rest == From(cur, Len(today))
       IN  IF rest # <<>> /\ rest[1] = "." /\ int(Tail(rest)).ok THEN int(Tail(rest)).n + 1 ELSE 2

AutoUsed ==
  \/ args.version = AUTO
  \/ ~Truthy(args.version) /\ ~Truthy(fetch_latest_release(release).tag)

\* C5: auto_version returns today's date and ".N", N being 1 when the stored
\* version is of another day, its integer suffix plus one when it has one,
\* and 2 otherwise; the day of the month is never taken as the suffix.
C5_AutoVersionNumber ==
  (Entered("ResolveVersion") /\ exc = "" /\ AutoUsed) =>
    version_no_v = strftime(date) \o <<".">>
                     \o str(ClaimedN(detect_config_version(start.config), strftime(date)))

\* ---------------------------------------------------------------------- C6
TagContent(tags, name) ==
  IF name \in TagNames(tags)
  THEN [exists |-> TRUE, config |-> TagTarget(tags, name).config,
        changelog |-> TagTarget(tags, name).changelog]
  ELSE [exists |-> FALSE, config |-> NoFile, changelog |-> NoFile]

\* the second non-dry default run has ended
SecondRunOver ==
  /\ run = 2 /\ pc \in {"done", "aborted"}
  /\ ~args.dry_run /\ ~args.no_push /\ ~args.latest_only

AsFirstRunLeftIt ==
  /\ config = first.config
  /\ changelog = first.changelog
  /\ tag_with_v = first.tag
  /\ TagContent(localTags, tag_with_v) = TagContent(first.localTags, first.tag)
  /\ TagContent(remoteTags, tag_with_v) = TagContent(first.remoteTags, first.tag)

LineStartFree(file) ==
  \/ file = NoFile
  \/ FirstKeyIndex(readlines(file)) # 0
  \/ file = <<>>
  \/ file[Len(file)] \in {"\n", "\r"}

QueryFails(rel) == rel.status # "ok" \/ ~rel.isdict \/ ~Truthy(rel.tag_name)

\* C7: without --version, a failing registry query (HTTP error, network
\* error, timeout, bad or non-object payload, missing or empty tag) returns
\* the empty pair without raising, and main resolves by auto_version, tag
\* "v" + version and the fallback notes or the caller's.
C7_QueryFailureFallsBack ==
  (Entered("ResolveVersion") /\ args.version = None /\ QueryFails(release)) =>
    /\ fetch_latest_release(release) = [exc |-> "", tag |-> None, body |-> None]
    /\ exc \notin Exceptions
    /\ steps = <<"ResolveVersion">> => pc = "resolved"
    /\ queries = 1
    /\ version_no_v = auto_version(start.config, date)
    /\ tag_with_v = V \o version_no_v
    /\ notes = IF Truthy(args.notes) THEN args.notes
               ELSE <<"# ">> \o tag_with_v \o <<"\n\nAuto fallback (no releases in repo).">>

\* the query timed out and the fallback picked a sequence number above 1
C7_Witness ==
  /\ pc = "resolved" /\ args.version = None /\ release.status = "timeout"
  /\ queries = 1
  /\ ~Truthy(args.notes) /\ Truthy(notes)
  /\ StartsWith(detect_config_version(config), strftime(date))

\* ---------------------------------------------------------------------- C8
\* the commands of the run after "git add" and "git commit"
TagLog == SubSeq(cmds, 3, Len(cmds))
Retagged == Entered("RetagAndPush") /\ ~args.dry_run
ExitOfDelete(tags) == IF tag_with_v \in TagNames(tags) THEN 0 ELSE 1

\* C8: non-dry git_force_tag_and_push issues delete-local, delete-remote,
\* create, push-branch, push-tag in this order; a deletion that fails for
\* want of the tag stops nothing; creation never fails on an existing tag,
\* and at the end the tag is at HEAD locally and on the remote.
C8_RetagSequence ==
  Retagged =>
    /\ Len(TagLog) >= 3
    /\ TagLog[1] = Cmd("tag -d", tag_with_v, ExitOfDelete(start.localTags))
    /\ TagLog[2] = Cmd("push origin :refs/tags/", tag_with_v, ExitOfDelete(start.remoteTags))
    /\ TagLog[3].cmd = "tag" /\ TagLog[3].arg = tag_with_v
    /\ ValidRef(tag_with_v) =>
         /\ TagLog[3].rc = 0
         /\ Len(TagLog) = 5
         /\ TagLog[4] = Cmd("push", <<>>, 0)
         /\ TagLog[5] = Cmd("push origin", tag_with_v, 0)
         /\ pc = "done"
         /\ [name |-> tag_with_v, target |-> head] \in localTags
         /\ [name |-> tag_with_v, target |-> head] \in remoteTags
         /\ remoteHead = head

\* the tag was missing locally and present, at an older commit, on origin
C8_Witness ==
  /\ Retagged /\ pc = "done"
  /\ tag_with_v \notin TagNames(start.localTags)
  /\ tag_with_v \in TagNames(start.remoteTags)
  /\ TagTarget(start.remoteTags, tag_with_v) # head
  /\ TagLog[1].rc = 1 /\ TagLog[2].rc = 0

\* ---------------------------------------------------------------------- C9
\* C9: with --dry-run no file and no local or remote ref changes and no git
\* command is issued, whatever the other flags and the version source.
C9_DryRunChangesNothing == args.dry_run => (Snapshot = start /\ cmds = <<>>)

\* a dry run went through every step on its way to re-tagging
C9_Witness ==
  /\ args.dry_run /\ pc = "done" /\ Entered("RetagAndPush")
  /\ config # NoFile /\ detect_config_version(config) # version_no_v
  /\ tag_with_v \in TagNames(localTags)

\* --------------------------------------------------------------------- C10
Order == <<"ResolveVersion", "WriteConfig", "WriteChangelog", "Commit">>
Terminal == IF args.no_push THEN "Stop" ELSE IF args.latest_only THEN "Push" ELSE "RetagAndPush"
TagCmds == {"tag -d", "push origin :refs/tags/", "tag", "push origin"}
CommitFailed == \E i \in 1..Len(cmds) : cmds[i].cmd = "commit" /\ cmds[i].rc # 0

\* C10: the steps of a run are ResolveVersion, WriteConfig, WriteChangelog,
\* Commit and one terminal branch, each once and in this order: stop under
\* --no-push (also with --latest-only), else push only under --latest-only,
\* else re-tag and push.  A missing config file ends the run at WriteConfig;
\* a failing commit does not end it.
C10_StepOrder ==
  /\ Len(steps) <= 5
  /\ \A i \in 1..Len(steps) : steps[i] = IF i <= 4 THEN Order[i] ELSE Terminal
  /\ pc = "done" => Len(steps) = 5
  /\ pc = "committed" => Len(steps) = 4
  /\ args.no_push => \A i \in 1..Len(cmds) : cmds[i].cmd \in {"add", "commit"}
  /\ (~args.no_push /\ args.latest_only) =>
       /\ \A i \in 1..Len(cmds) : cmds[i].cmd \notin TagCmds
       /\ (pc = "done" /\ ~args.dry_run) =>
            /\ cmds[Len(cmds)].cmd = "push"
            /\ Cardinality({i \in 1..Len(cmds) : cmds[i].cmd = "push"}) = 1
  /\ (~args.no_push /\ ~args.latest_only /\ pc = "done" /\ ~args.dry_run) => Issued("tag")
  /\ start.config = NoFile =>
       /\ pc \in {"start", "resolved", "aborted"}
       /\ Entered("WriteConfig") =>
            /\ pc = "aborted" /\ exc = "FileNotFoundError"
            /\ steps = <<"ResolveVersion", "WriteConfig">>
            /\ cmds = <<>>
            /\ Snapshot = start
  /\ CommitFailed => ~(pc = "aborted" /\ steps[Len(steps)] = "Commit")
  /\ (CommitFailed /\ pc \in {"done", "aborted"}) => Len(steps) = 5

\* with both --no-push and --latest-only the run stopped after a commit
\* that found nothing to commit
C10_Witness ==
  /\ pc = "done" /\ args.no_push /\ args.latest_only /\ ~args.dry_run
  /\ CommitFailed
  /\ steps = Order \o <<"Stop">>
  /\ Len(cmds) = 2

====
